---- MODULE Spec2Model ----
(***************************************************************************)
(* Model of src/da.py, the Netflix titles analysis script: main reads a    *)
(* CSV file, clean_data normalises it, seven renderers write chart files   *)
(* and save_summary writes the summary table.                              *)
(*                                                                         *)
(* Text is a sequence of one-character strings, so that strip, split,      *)
(* lower and int are computed as Python computes them.  A missing cell     *)
(* (pandas NaN / NaT) of a text column is NA; a missing number is the      *)
(* empty sequence NaN and a present number n is <<n>>.  A data frame is a  *)
(* record [columns, rows]; a row is a function from the frame's columns to *)
(* cell values, so df["c"] is a KeyError exactly when c is not a column.   *)
(* Column names are taken as already trimmed (da.py line 49).              *)
(***************************************************************************)
EXTENDS Integers, Sequences, FiniteSets, TLC

VARIABLES
  pc,            \* the statement of main about to run, "exit" once the process ended
  returned,      \* the functions of da.py that have returned normally
  csv_exists,    \* os.path.exists(args.csv)
  header,        \* the columns of the CSV file
  data,          \* the rows of the CSV file
  df,            \* main's data frame
  dirs,          \* the directories made under SCRIPT_DIR
  artifacts,     \* the files written under SCRIPT_DIR
  log,           \* what was printed, one tag per print call
  exit_code,     \* <<>> while running, then <<0>> or <<1>>
  series,        \* plot_yearly_trend: the plotted series, <<year, count>> pairs
  m,             \* duration_insights: the movie durations plotted
  s,             \* duration_insights: the season counts plotted
  dir_counts,    \* top_directors_actors: the director tally plotted
  actor_counter, \* top_directors_actors: the actor tally
  summary,       \* save_summary: the summary table
  raised         \* the exception that ended the run, "" if none

vars == <<pc, returned, csv_exists, header, data, df, dirs, artifacts, log,
          exit_code, series, m, s, dir_counts, actor_counter, summary, raised>>

(***************************************************************************)
(* Bounds of the model.                                                    *)
(***************************************************************************)
MaxRows == 2
MaxLen == 3
MaxDurLen == 4
MaxCastNames == 6

(***************************************************************************)
(* Program constants.                                                      *)
(***************************************************************************)
top_genres == 12
top_people == 10
ACTOR_CAP == 5

(***************************************************************************)
(* Text values.                                                            *)
(***************************************************************************)
NA == <<"<NA>">>
NaN == <<>>
Unknown == <<"U", "n", "k", "n", "o", "w", "n">>

isna(x) == x = NA

IsSpace(c) == c = " "

RECURSIVE lstrip(_)
lstrip(t) ==
  IF t = <<>> THEN t
  ELSE IF IsSpace(Head(t)) THEN lstrip(Tail(t)) ELSE t

RECURSIVE rstrip(_)
rstrip(t) ==
  IF t = <<>> THEN t
  ELSE IF IsSpace(t[Len(t)]) THEN rstrip(SubSeq(t, 1, Len(t) - 1)) ELSE t

strip(t) == rstrip(lstrip(t))

\* index of the first character of t that is in stops, Len(t) + 1 if none
FirstIndex(t, stops) ==
  IF \E i \in 1..Len(t) : t[i] \in stops
  THEN CHOOSE i \in 1..Len(t) : t[i] \in stops /\ \A j \in 1..(i - 1) : t[j] \notin stops
  ELSE Len(t) + 1

\* str.split(sep) for a one-character separator: never empty, keeps empty pieces
RECURSIVE split(_, _)
split(t, sep) ==
  LET i == FirstIndex(t, {sep})
  IN  IF i > Len(t) THEN <<t>>
      ELSE <<SubSeq(t, 1, i - 1)>> \o split(SubSeq(t, i + 1, Len(t)), sep)

\* str.split() without argument: runs of whitespace separate, no empty pieces
RECURSIVE split_ws(_)
split_ws(t) ==
  LET u == lstrip(t)
      i == FirstIndex(u, {" "})
  IN  IF u = <<>> THEN <<>>
      ELSE <<SubSeq(u, 1, i - 1)>> \o split_ws(SubSeq(u, i, Len(u)))

\* the Python test  sub in t
contains(t, sub) ==
  \E i \in 1..(Len(t) - Len(sub) + 1) : SubSeq(t, i, i + Len(sub) - 1) = sub

Digits == <<"0", "1", "2", "3", "4", "5", "6", "7", "8", "9">>
IsDigit(c) == \E i \in 1..10 : Digits[i] = c
DigitVal(c) == (CHOOSE i \in 1..10 : Digits[i] = c) - 1

RECURSIVE Horner(_, _)
Horner(t, acc) ==
  IF t = <<>> THEN acc ELSE Horner(Tail(t), 10 * acc + DigitVal(Head(t)))

\* int(text): surrounding whitespace, an optional sign, one or more digits;
\* anything else is a ValueError
int(t) ==
  LET u == strip(t)
      signed == u # <<>> /\ Head(u) \in {"+", "-"}
      body == IF signed THEN Tail(u) ELSE u
      ok == body # <<>> /\ \A i \in 1..Len(body) : IsDigit(body[i])
  IN  IF ~ok THEN [exc |-> "ValueError", val |-> 0]
      ELSE [exc |-> "", val |-> IF signed /\ Head(u) = "-"
                                THEN 0 - Horner(body, 0) ELSE Horner(body, 0)]

UpperCase == <<"A", "B", "C", "D", "E", "F", "G", "H", "I", "J", "K", "L", "M",
               "N", "O", "P", "Q", "R", "S", "T", "U", "V", "W", "X", "Y", "Z">>
LowerCase == <<"a", "b", "c", "d", "e", "f", "g", "h", "i", "j", "k", "l", "m",
               "n", "o", "p", "q", "r", "s", "t", "u", "v", "w", "x", "y", "z">>

lower(t) ==
  [i \in 1..Len(t) |->
     IF \E k \in 1..26 : UpperCase[k] = t[i]
     THEN LowerCase[CHOOSE k \in 1..26 : UpperCase[k] = t[i]]
     ELSE t[i]]

\* Series.str.strip / Series.str.lower leave a missing cell missing
str_strip(x) == IF isna(x) THEN x ELSE strip(x)
str_lower(x) == IF isna(x) THEN x ELSE lower(x)

\* Series.fillna("Unknown") on one cell
fillna(x) == IF isna(x) THEN Unknown ELSE x

(***************************************************************************)
(* clean_data                                                              *)
(***************************************************************************)
MIN == <<"m", "i", "n">>

\* the body of parse_duration's try block: the exception it raises, or its value
parse_duration_try(t) ==
  LET tokens == split_ws(t)
  IN  IF contains(t, MIN)
      THEN IF tokens = <<>> THEN [exc |-> "IndexError", val |-> 0]
           ELSE int(tokens[1])
      ELSE IF tokens = <<>> THEN [exc |-> "IndexError", val |-> 0]
           ELSE int(tokens[1])

\* a handler written "except ValueError" instead
Caught_ValueErrorOnly(exc) == exc = "ValueError"

\* the exceptions parse_duration's handler catches: "except Exception"
Caught(exc) == exc # ""

parse_duration(x) ==
  IF isna(x) THEN [exc |-> "", val |-> NaN]
  ELSE LET r == parse_duration_try(strip(x))
       IN  IF r.exc = "" THEN [exc |-> "", val |-> <<r.val>>]
           ELSE IF Caught(r.exc) THEN [exc |-> "", val |-> NaN]
           ELSE [exc |-> r.exc, val |-> NaN]

\* pd.to_datetime(errors="coerce") on one cell: a date, or NaT
NaT == [kind |-> "na", year |-> 0]
to_datetime(d) == IF d.kind = "date" THEN d ELSE NaT

\* .dt.year on one cell
year_of(d) == IF d.kind = "date" THEN <<d.year>> ELSE NaN

FILLED == {"director", "cast", "country", "rating"}

\* the pieces left untrimmed
genres_of_untrimmed(x) == split(x, ",")

genres_of(x) ==
  LET parts == split(x, ",") IN [i \in 1..Len(parts) |-> strip(parts[i])]

\* the first country left untrimmed
primary_country_of_untrimmed(x) ==
  IF ~isna(x) /\ x # Unknown THEN split(x, ",")[1] ELSE Unknown

primary_country_of(x) ==
  IF ~isna(x) /\ x # Unknown THEN strip(split(x, ",")[1]) ELSE Unknown

\* one row of clean_data's result
clean_row(cols, r) ==
  LET filled(c) == IF c \in FILLED \/ c = "listed_in" THEN fillna(r[c]) ELSE r[c]
      newcols == cols \cup {"year_added", "genres_list", "duration_parsed",
                            "primary_country"}
  IN  [c \in newcols |->
         CASE c = "year_added" ->
                IF "date_added" \in cols THEN year_of(to_datetime(r["date_added"]))
                ELSE NaN
           [] c = "genres_list" ->
                IF "listed_in" \in cols THEN genres_of(filled("listed_in")) ELSE <<>>
           [] c = "duration_parsed" ->
                IF "duration" \in cols THEN parse_duration(r["duration"]).val ELSE NaN
           [] c = "primary_country" ->
                IF "country" \in cols THEN primary_country_of(filled("country"))
                ELSE Unknown
           [] c = "type" -> str_strip(r[c])
           [] c = "date_added" -> to_datetime(r[c])
           [] OTHER -> filled(c)]

\* the .str accessor raises AttributeError on a column that holds no text: a
\* column of a non-empty frame in which every cell is missing is a float column
str_accessor_fails(frame, c) ==
  /\ frame.rows # <<>>
  /\ \A i \in 1..Len(frame.rows) : isna(frame.rows[i][c])

\* the exception clean_data raises ("" when it returns) and the frame it returns
clean_data(frame) ==
  LET cols == frame.columns
      n == Len(frame.rows)
      durexc == IF "duration" \in cols
                THEN {parse_duration(frame.rows[i]["duration"]).exc : i \in 1..n} \ {""}
                ELSE {}
  IN  IF "type" \in cols /\ str_accessor_fails(frame, "type")
      THEN [exc |-> "AttributeError", df |-> frame]
      ELSE IF durexc # {}
      THEN [exc |-> CHOOSE e \in durexc : TRUE, df |-> frame]
      ELSE [exc |-> "",
            df |-> [columns |-> cols \cup {"year_added", "genres_list",
                                            "duration_parsed", "primary_country"},
                    rows |-> [i \in 1..n |-> clean_row(cols, frame.rows[i])]]]

(***************************************************************************)
(* Series helpers.                                                         *)
(***************************************************************************)
Column(frame, c) == [i \in 1..Len(frame.rows) |-> frame.rows[i][c]]

\* Series.value_counts() of a text column: missing cells are not counted
value_counts(col) ==
  [k \in ({col[i] : i \in 1..Len(col)} \ {NA}) |->
     Cardinality({i \in 1..Len(col) : col[i] = k})]

\* Series.dropna() of a numeric column, as the sequence of the numbers left
RECURSIVE dropna(_)
dropna(col) ==
  IF col = <<>> THEN <<>>
  ELSE IF Head(col) = NaN THEN dropna(Tail(col))
  ELSE <<Head(col)[1]>> \o dropna(Tail(col))

\* Series.value_counts() of a sequence of numbers
num_counts(nums) ==
  [k \in {nums[i] : i \in 1..Len(nums)} |->
     Cardinality({i \in 1..Len(nums) : nums[i] = k})]

\* Series.sort_index(): the <<key, count>> pairs by ascending key
RECURSIVE sort_index(_)
sort_index(f) ==
  IF DOMAIN f = {} THEN <<>>
  ELSE LET k == CHOOSE a \in DOMAIN f : \A b \in DOMAIN f : a <= b
       IN  <<(<<k, f[k]>>)>> \o sort_index([b \in DOMAIN f \ {k} |-> f[b]])

\* Series.head(n) of a tally in descending order of count, and
\* Counter.most_common(n): n entries that no entry left out outnumbers
head(counts, n) ==
  IF Cardinality(DOMAIN counts) <= n THEN counts
  ELSE LET keep == CHOOSE K \in SUBSET DOMAIN counts :
                     /\ Cardinality(K) = n
                     /\ \A a \in K : \A b \in DOMAIN counts \ K :
                          counts[a] >= counts[b]
       IN  [k \in keep |-> counts[k]]

(***************************************************************************)
(* The CSV files main is run on.  pd.read_csv gives NA for an empty cell,  *)
(* so a present text cell is never the empty text.                         *)
(***************************************************************************)
OptionalCols == {"type", "director", "cast", "country", "rating", "listed_in",
                 "date_added", "duration"}

Date(y) == [kind |-> "date", year |-> y]
BadDate == [kind |-> "bad", year |-> 0]

Movie == <<"M", "o", "v", "i", "e">>
TVShow == <<"T", "V", " ", "S", "h", "o", "w">>
Min90 == <<"9", "0", " ", "m", "i", "n">>
Seasons2 == <<"2", " ", "S", "e", "a", "s", "o", "n", "s">>
Season1 == <<"1", " ", "S", "e", "a", "s", "o", "n">>
Season == <<"S", "e", "a", "s", "o", "n">>

\* the texts of length 1..n over an alphabet
Texts(alphabet, n) == UNION {[1..k -> alphabet] : k \in 1..n}

RECURSIVE join(_)
join(names) ==
  IF Len(names) = 1 THEN names[1]
  ELSE names[1] \o <<",">> \o join(Tail(names))

MovieRow ==
  [c \in OptionalCols |->
     CASE c = "type" -> Movie
       [] c = "director" -> <<"A">>
       [] c = "cast" -> <<"A", ",", " ", "B">>
       [] c = "country" -> <<"A", ",", " ", "B">>
       [] c = "rating" -> <<"P", "G">>
       [] c = "listed_in" -> <<"D", ",", " ", "E">>
       [] c = "date_added" -> Date(2020)
       [] c = "duration" -> Min90]

ShowRow ==
  [c \in OptionalCols |->
     CASE c = "type" -> TVShow
       [] c = "director" -> <<"B">>
       [] c = "cast" -> <<"B">>
       [] c = "country" -> <<"B">>
       [] c = "rating" -> <<"T", "V">>
       [] c = "listed_in" -> <<"E">>
       [] c = "date_added" -> Date(2021)
       [] c = "duration" -> Seasons2]

BlankRow == [c \in OptionalCols |-> IF c = "date_added" THEN NaT ELSE NA]

\* the sequences of 1..n rows drawn from a set of rows
RowSeqs(rowset, n) == UNION {[1..k -> rowset] : k \in 1..n}

File(cols, rows) ==
  [header |-> cols,
   data |-> [i \in 1..Len(rows) |-> [c \in cols |-> rows[i][c]]]]

\* every subset of the optional columns, with no row, or with a few plain rows
SchemaFiles ==
  {File(cols, rows) : cols \in SUBSET OptionalCols,
                      rows \in {<<>>} \cup RowSeqs({MovieRow, ShowRow, BlankRow}, MaxRows)}

DirectorSamples == {NA, <<"A">>, <<"B">>, Unknown}
CastSamples == {NA, <<"A">>, <<"A", ",", " ", "B">>, <<"B", ",", "A">>,
                <<"A", ",", "B", ",", "C", ",", "D", ",", "E", ",", "A", ",", "B">>}

PeopleFiles ==
  {File(OptionalCols, rows) :
     rows \in RowSeqs({[MovieRow EXCEPT !["director"] = d, !["cast"] = c] :
                         d \in DirectorSamples, c \in CastSamples}, MaxRows)}

\* one row whose cast lists up to MaxCastNames names, some padded, some empty
CastNames == {<<"A">>, <<" ", "B">>, <<>>}
CastFiles ==
  {File(OptionalCols, <<[MovieRow EXCEPT !["cast"] = join(names)]>>) :
     names \in {n \in Texts(CastNames, MaxCastNames) : join(n) # <<>>}}

DurationSamples == {NA, Min90, Seasons2, Season1, Season,
                    <<" ", "7", " ", "m", "i", "n">>, <<"m", "i", "n">>,
                    <<"+", "3", " ", "m", "i", "n">>, <<"0", " ", "m", "i", "n">>}
DurationFiles ==
  {File(OptionalCols, <<[MovieRow EXCEPT !["duration"] = d]>>) :
     d \in DurationSamples \cup Texts({"1", "0", " ", "m", "-"}, MaxDurLen)}

TypeSamples == {NA, Movie, <<"m", "o", "v", "i", "e">>,
                <<" ", "M", "O", "V", "I", "E", " ">>, TVShow,
                <<"t", "v", " ", "s", "h", "o", "w">>, <<"F", "i", "l", "m">>}
InsightFiles ==
  {File(OptionalCols, rows) :
     rows \in RowSeqs({[MovieRow EXCEPT !["type"] = ty, !["duration"] = d] :
                         ty \in TypeSamples, d \in {NA, Min90, Seasons2, Season}},
                      MaxRows)}

Canada == <<"C", "a", "n", "a", "d", "a", ",", " ", "U", "S">>
CountryFiles ==
  {File(OptionalCols, <<[MovieRow EXCEPT !["country"] = x]>>) :
     x \in {NA, Unknown, Canada} \cup Texts({"A", "B", ",", " "}, MaxLen)}

Dramas == <<"D", "r", "a", "m", "a", "s", ",", " ", "I", "n", "t", "l">>
GenreFiles ==
  {File(OptionalCols, <<[MovieRow EXCEPT !["listed_in"] = x]>>) :
     x \in {NA, Unknown, Dramas} \cup Texts({"A", "B", ",", " "}, MaxLen)}

YearFiles ==
  {File(OptionalCols, rows) :
     rows \in RowSeqs({[MovieRow EXCEPT !["date_added"] = d] :
                         d \in {NaT, BadDate, Date(2019), Date(2020), Date(2021)}},
                      MaxRows)}

Files == SchemaFiles \cup PeopleFiles \cup CastFiles \cup DurationFiles
           \cup InsightFiles \cup CountryFiles \cup GenreFiles \cup YearFiles

NoFrame == [columns |-> {}, rows |-> <<>>]

Init ==
  /\ csv_exists \in BOOLEAN
  /\ \E f \in (IF csv_exists THEN Files ELSE {File({}, <<>>)}) :
       /\ header = f.header
       /\ data = f.data
  /\ pc = "ensure_dirs"
  /\ returned = {}
  /\ df = NoFrame
  /\ dirs = {}
  /\ artifacts = {}
  /\ log = <<>>
  /\ exit_code = <<>>
  /\ series = <<>>
  /\ m = <<>>
  /\ s = <<>>
  /\ dir_counts = <<>>
  /\ actor_counter = <<>>
  /\ summary = <<>>
  /\ raised = ""

(***************************************************************************)
(* The statements of main, in order.                                       *)
(***************************************************************************)
Stages == <<"ensure_dirs", "read_data", "clean_data", "plot_movies_vs_tv",
            "plot_top_genres", "plot_yearly_trend", "plot_top_countries",
            "plot_rating_distribution", "duration_insights",
            "top_directors_actors", "save_summary", "finish">>

NextStage(st) == Stages[(CHOOSE i \in 1..Len(Stages) : Stages[i] = st) + 1]

\* the call returns: main goes on with its next statement
Return(st) ==
  /\ pc' = NextStage(st)
  /\ returned' = returned \cup {st}
  /\ exit_code' = exit_code
  /\ raised' = raised

\* an uncaught exception leaves main: traceback, exit status 1
Raise(exc) ==
  /\ pc' = "exit"
  /\ returned' = returned
  /\ exit_code' = <<1>>
  /\ raised' = exc

\* the call returns if exc is "", and raises exc otherwise
Outcome(st, exc) ==
  /\ pc' = IF exc = "" THEN NextStage(st) ELSE "exit"
  /\ returned' = IF exc = "" THEN returned \cup {st} ELSE returned
  /\ exit_code' = IF exc = "" THEN exit_code ELSE <<1>>
  /\ raised' = exc

\* fig.savefig(path) and print(f"Saved {path}") when save holds
Save(save, path) ==
  /\ artifacts' = IF save THEN artifacts \cup {path} ELSE artifacts
  /\ log' = IF save THEN Append(log, "Saved " \o path) ELSE log

ensure_dirs ==
  /\ pc = "ensure_dirs"
  /\ dirs' = dirs \cup {"plots", "output"}
  /\ Return("ensure_dirs")
  /\ UNCHANGED <<csv_exists, header, data, df, artifacts, log, series, m, s,
                 dir_counts, actor_counter, summary>>

read_data ==
  /\ pc = "read_data"
  /\ IF ~csv_exists
     THEN /\ log' = Append(log, "ERROR: CSV file not found")
          /\ pc' = "exit"
          /\ exit_code' = <<1>>
          /\ raised' = "SystemExit"
          /\ UNCHANGED <<df, returned>>
     ELSE /\ df' = [columns |-> header, rows |-> data]
          /\ Return("read_data")
          /\ log' = log
  /\ UNCHANGED <<csv_exists, header, data, dirs, artifacts, series, m, s,
                 dir_counts, actor_counter, summary>>

clean ==
  /\ pc = "clean_data"
  /\ LET r == clean_data(df)
     IN  /\ df' = r.df
         /\ Outcome("clean_data", r.exc)
  /\ UNCHANGED <<csv_exists, header, data, dirs, artifacts, log, series, m, s,
                 dir_counts, actor_counter, summary>>

\* what a seaborn plot of no data at all does is not fixed by da.py: it may
\* draw an empty chart or raise
EmptyPlot(frame) == IF frame.rows = <<>> THEN {"", "ValueError"} ELSE {""}

plot_movies_vs_tv ==
  /\ pc = "plot_movies_vs_tv"
  /\ \E exc \in (IF "type" \notin df.columns THEN {"KeyError"} ELSE EmptyPlot(df)) :
       /\ Outcome("plot_movies_vs_tv", exc)
       /\ Save(exc = "", "plots/movies_vs_tv.png")
  /\ UNCHANGED <<csv_exists, header, data, df, dirs, series, m, s,
                 dir_counts, actor_counter, summary>>

\* Counter over a sequence of texts
Counter(xs) ==
  [k \in {xs[i] : i \in 1..Len(xs)} |-> Cardinality({i \in 1..Len(xs) : xs[i] = k})]

RECURSIVE Flatten(_)
Flatten(lists) ==
  IF lists = <<>> THEN <<>> ELSE Head(lists) \o Flatten(Tail(lists))

\* zip(*top) of an empty list cannot be unpacked into two names
plot_top_genres ==
  /\ pc = "plot_top_genres"
  /\ LET all_genres == Counter(Flatten(Column(df, "genres_list")))
         top == head(all_genres, top_genres)
         exc == IF DOMAIN top = {} THEN "ValueError" ELSE ""
     IN  /\ Outcome("plot_top_genres", exc)
         /\ Save(exc = "", "plots/top_genres.png")
  /\ UNCHANGED <<csv_exists, header, data, df, dirs, series, m, s,
                 dir_counts, actor_counter, summary>>

yearly_series(frame) == sort_index(num_counts(dropna(Column(frame, "year_added"))))

plot_yearly_trend ==
  /\ pc = "plot_yearly_trend"
  /\ LET skip == \/ "year_added" \notin df.columns
                 \/ \A i \in 1..Len(df.rows) : df.rows[i]["year_added"] = NaN
     IN  IF skip
         THEN /\ log' = Append(log, "No year_added information available to plot yearly trend.")
              /\ UNCHANGED <<series, artifacts>>
         ELSE /\ series' = yearly_series(df)
              /\ Save(TRUE, "plots/content_added_per_year.png")
  /\ Return("plot_yearly_trend")
  /\ UNCHANGED <<csv_exists, header, data, df, dirs, m, s,
                 dir_counts, actor_counter, summary>>

plot_top_countries ==
  /\ pc = "plot_top_countries"
  /\ \E exc \in EmptyPlot(df) :
       /\ Outcome("plot_top_countries", exc)
       /\ Save(exc = "", "plots/top_countries.png")
  /\ UNCHANGED <<csv_exists, header, data, df, dirs, series, m, s,
                 dir_counts, actor_counter, summary>>

plot_rating_distribution ==
  /\ pc = "plot_rating_distribution"
  /\ IF "rating" \notin df.columns
     THEN /\ log' = Append(log, "No rating column present")
          /\ artifacts' = artifacts
          /\ Return("plot_rating_distribution")
     ELSE \E exc \in EmptyPlot(df) :
            /\ Outcome("plot_rating_distribution", exc)
            /\ Save(exc = "", "plots/rating_distribution.png")
  /\ UNCHANGED <<csv_exists, header, data, df, dirs, series, m, s,
                 dir_counts, actor_counter, summary>>

\* the rows of duration_insights' movies and shows frames
IsMovie(r) == str_lower(r["type"]) = <<"m", "o", "v", "i", "e">>
IsShow(r) == str_lower(r["type"]) = <<"t", "v", " ", "s", "h", "o", "w">>

movies_of(frame) ==
  IF "type" \in frame.columns THEN SelectSeq(frame.rows, IsMovie) ELSE frame.rows

shows_of(frame) ==
  IF "type" \in frame.columns THEN SelectSeq(frame.rows, IsShow) ELSE <<>>

durations_of(rows) == dropna([i \in 1..Len(rows) |-> rows[i]["duration_parsed"]])

duration_insights ==
  /\ pc = "duration_insights"
  /\ LET movies == movies_of(df)
         shows == shows_of(df)
         mm == IF movies # <<>> /\ "duration_parsed" \in df.columns
               THEN durations_of(movies) ELSE <<>>
         ss == IF shows # <<>> /\ "duration_parsed" \in df.columns
               THEN durations_of(shows) ELSE <<>>
         p1 == IF mm # <<>> THEN {"plots/movie_duration_distribution.png"} ELSE {}
         p2 == IF ss # <<>> THEN {"plots/show_seasons_count.png"} ELSE {}
         l1 == IF mm # <<>> THEN <<"Saved plots/movie_duration_distribution.png">>
               ELSE <<>>
         l2 == IF ss # <<>> THEN <<"Saved plots/show_seasons_count.png">> ELSE <<>>
     IN  /\ m' = mm
         /\ s' = ss
         /\ artifacts' = artifacts \cup p1 \cup p2
         /\ log' = log \o l1 \o l2
  /\ Return("duration_insights")
  /\ UNCHANGED <<csv_exists, header, data, df, dirs, series,
                 dir_counts, actor_counter, summary>>

\* every listed name counted, without the cap
actors_of_uncapped(c) ==
  LET parts == split(c, ",")
      names == [i \in 1..Len(parts) |-> strip(parts[i])]
      Named(a) == a # <<>>
  IN  SelectSeq(names, Named)

\* the names one cast text adds to the actor tally
actors_of(c) ==
  LET parts == split(c, ",")
      names == [i \in 1..Len(parts) |-> strip(parts[i])]
      first == SubSeq(names, 1, IF Len(names) < ACTOR_CAP THEN Len(names) ELSE ACTOR_CAP)
      Named(a) == a # <<>>
  IN  SelectSeq(first, Named)

NotMissing(x) == ~isna(x)
NotUnknown(x) == x # Unknown

directors_of(frame) ==
  SelectSeq(SelectSeq(Column(frame, "director"), NotMissing), NotUnknown)

actor_tally(frame) ==
  LET casts == SelectSeq(Column(frame, "cast"), NotMissing)
  IN  Counter(Flatten([i \in 1..Len(casts) |-> actors_of(casts[i])]))

top_directors_actors ==
  /\ pc = "top_directors_actors"
  /\ IF "director" \notin df.columns
     THEN /\ Raise("KeyError")
          /\ UNCHANGED <<dir_counts, actor_counter, artifacts, log>>
     ELSE LET directors == directors_of(df)
              counter == IF "cast" \in df.columns THEN actor_tally(df) ELSE <<>>
              top_actors == head(counter, top_people)
              p1 == IF directors # <<>> THEN {"plots/top_directors.png"} ELSE {}
              p2 == IF DOMAIN top_actors # {} THEN {"plots/top_actors.png"} ELSE {}
              l1 == IF directors # <<>> THEN <<"Saved plots/top_directors.png">>
                    ELSE <<>>
              l2 == IF DOMAIN top_actors # {} THEN <<"Saved plots/top_actors.png">>
                    ELSE <<>>
          IN  /\ dir_counts' = IF directors # <<>>
                               THEN head(value_counts(directors), top_people)
                               ELSE dir_counts
              /\ actor_counter' = counter
              /\ artifacts' = artifacts \cup p1 \cup p2
              /\ log' = log \o l1 \o l2
              /\ Return("top_directors_actors")
  /\ UNCHANGED <<csv_exists, header, data, df, dirs, series, m, s, summary>>

\* the first year in row order taken for the earliest
Min_first(nums) == nums[1]

Min(nums) == CHOOSE a \in {nums[i] : i \in 1..Len(nums)} :
               \A i \in 1..Len(nums) : a <= nums[i]
Max(nums) == CHOOSE a \in {nums[i] : i \in 1..Len(nums)} :
               \A i \in 1..Len(nums) : a >= nums[i]

\* the keys idxmax may return: those with the greatest count
ArgMax(counts) == {k \in DOMAIN counts : \A j \in DOMAIN counts : counts[k] >= counts[j]}

save_summary ==
  /\ pc = "save_summary"
  /\ LET years == dropna(Column(df, "year_added"))
         countries == value_counts(Column(df, "primary_country"))
     IN  \E top \in (IF df.rows # <<>> THEN ArgMax(countries) ELSE {Unknown}) :
           summary' =
             [total_titles |-> Len(df.rows),
              types |-> IF "type" \in df.columns
                        THEN value_counts(Column(df, "type")) ELSE <<>>,
              earliest_year_added |-> IF years # <<>> THEN <<Min(years)>> ELSE NaN,
              latest_year_added |-> IF years # <<>> THEN <<Max(years)>> ELSE NaN,
              top_country |-> top]
  /\ artifacts' = artifacts \cup {"output/summary_stats.csv"}
  /\ log' = Append(log, "Saved summary to output/summary_stats.csv")
  /\ Return("save_summary")
  /\ UNCHANGED <<csv_exists, header, data, df, dirs, series, m, s,
                 dir_counts, actor_counter>>

\* main's last print; the script ends with status 0
finish ==
  /\ pc = "finish"
  /\ log' = Append(log, "All done.")
  /\ pc' = "exit"
  /\ returned' = returned \cup {"main"}
  /\ exit_code' = <<0>>
  /\ UNCHANGED <<csv_exists, header, data, df, dirs, artifacts, series, m, s,
                 dir_counts, actor_counter, summary, raised>>

Next ==
  \/ ensure_dirs
  \/ read_data
  \/ clean
  \/ plot_movies_vs_tv
  \/ plot_top_genres
  \/ plot_yearly_trend
  \/ plot_top_countries
  \/ plot_rating_distribution
  \/ duration_insights
  \/ top_directors_actors
  \/ save_summary
  \/ finish

Spec == Init /\ [][Next]_vars

(***************************************************************************)
(* duration_insights called on its own on a cleaned frame: the functions   *)
(* of da.py are importable, the script body is under the __main__ guard.   *)
(* The output directories exist, as the function's savefig calls need.     *)
(***************************************************************************)
InitInsights ==
  /\ csv_exists = TRUE
  /\ \E f \in Files :
       LET r == clean_data([columns |-> f.header, rows |-> f.data])
       IN  /\ r.exc = ""
           /\ header = f.header
           /\ data = f.data
           /\ df = r.df
  /\ pc = "duration_insights"
  /\ returned = {}
  /\ dirs = {"plots", "output"}
  /\ artifacts = {}
  /\ log = <<>>
  /\ exit_code = <<>>
  /\ series = <<>>
  /\ m = <<>>
  /\ s = <<>>
  /\ dir_counts = <<>>
  /\ actor_counter = <<>>
  /\ summary = <<>>
  /\ raised = ""

NextInsights == duration_insights

SpecInsights == InitInsights /\ [][NextInsights]_vars

(***************************************************************************)
(* Vocabulary of the properties, stated on the text itself and not through *)
(* the operators of the model.                                             *)
(***************************************************************************)
Least(S) == CHOOSE a \in S : \A b \in S : a <= b
Greatest(S) == CHOOSE a \in S : \A b \in S : a >= b

\* t without its leading and trailing blanks
Trimmed(t) ==
  LET inked == {i \in 1..Len(t) : t[i] # " "}
  IN  IF inked = {} THEN <<>> ELSE SubSeq(t, Least(inked), Greatest(inked))

CommaAt(t) == {i \in 1..Len(t) : t[i] = ","}

\* the number of comma-separated pieces of t, and the k-th of them
PieceCount(t) == Cardinality(CommaAt(t)) + 1
Piece(t, k) ==
  LET bounds == CommaAt(t) \cup {0, Len(t) + 1}
      lo == CHOOSE i \in bounds : Cardinality({j \in bounds : j < i}) = k - 1
      hi == CHOOSE i \in bounds : Cardinality({j \in bounds : j < i}) = k
  IN  SubSeq(t, lo + 1, hi - 1)

RECURSIVE Pow10(_)
Pow10(n) == IF n = 0 THEN 1 ELSE 10 * Pow10(n - 1)

\* the blank-delimited token t starts with, <<>> if t is blank
LeadingToken(t) ==
  LET u == Trimmed(t)
      blanks == {i \in 1..Len(u) : u[i] = " "}
  IN  IF blanks = {} THEN u ELSE SubSeq(u, 1, Least(blanks) - 1)

Unsigned(tok) == IF tok # <<>> /\ tok[1] \in {"+", "-"} THEN Tail(tok) ELSE tok
IsInteger(tok) ==
  /\ Unsigned(tok) # <<>>
  /\ \A i \in 1..Len(Unsigned(tok)) : Unsigned(tok)[i] \in {Digits[k] : k \in 1..10}
IntegerOf(tok) ==
  LET d == Unsigned(tok)
      RECURSIVE Sum(_)
      Sum(i) == IF i > Len(d) THEN 0
                ELSE (CHOOSE v \in 0..9 : Digits[v + 1] = d[i]) * Pow10(Len(d) - i)
                     + Sum(i + 1)
  IN  IF tok[1] = "-" THEN 0 - Sum(1) ELSE Sum(1)

Cleaned == "clean_data" \in returned
Rows == 1..Len(data)

(***************************************************************************)
(* C5: parse_duration never raises; it gives the leading blank-delimited   *)
(* token of the duration as an integer when that token is an integer,      *)
(* with or without "min" in the text, and the missing marker when the      *)
(* duration is missing, blank, or its leading token is not an integer.     *)
(***************************************************************************)
ExpectedDuration(x) ==
  IF isna(x) THEN NaN
  ELSE IF IsInteger(LeadingToken(x)) THEN <<IntegerOf(LeadingToken(x))>>
  ELSE NaN

C5_ParseDuration ==
  /\ ("read_data" \in returned /\ ~Cleaned) => raised \notin {"IndexError", "ValueError"}
  /\ (Cleaned /\ "duration" \in header) =>
       \A i \in Rows :
         df.rows[i]["duration_parsed"] = ExpectedDuration(data[i]["duration"])

C5_Witness ==
  /\ Cleaned
  /\ Len(data) = 2
  /\ "duration" \in header
  /\ data[1]["duration"] = Min90 /\ df.rows[1]["duration_parsed"] = <<90>>
  /\ data[2]["duration"] = Season /\ df.rows[2]["duration_parsed"] = NaN

(***************************************************************************)
(* C6: after clean_data, primary_country is the trimmed text before the    *)
(* first comma of country when country is present and not the sentinel,    *)
(* and "Unknown" when country is missing, is the sentinel, or the column   *)
(* is absent.                                                              *)
(***************************************************************************)
ExpectedCountry(i) ==
  IF "country" \notin header THEN Unknown
  ELSE IF data[i]["country"] = NA \/ data[i]["country"] = Unknown THEN Unknown
  ELSE Trimmed(Piece(data[i]["country"], 1))

C6_PrimaryCountry ==
  Cleaned => \A i \in Rows : df.rows[i]["primary_country"] = ExpectedCountry(i)

C6_Witness ==
  /\ Cleaned
  /\ Len(data) = 1
  /\ "country" \in header
  /\ data[1]["country"] = Canada
  /\ df.rows[1]["primary_country"] = <<"C", "a", "n", "a", "d", "a">>

(***************************************************************************)
(* C7: after clean_data, genres_list is the trimmed comma-separated pieces *)
(* of listed_in in their order; a missing listed_in gives <<"Unknown">>;   *)
(* without a listed_in column every record gets the empty sequence.        *)
(***************************************************************************)
ExpectedGenres(i) ==
  IF "listed_in" \notin header THEN <<>>
  ELSE IF data[i]["listed_in"] = NA THEN <<Unknown>>
  ELSE [k \in 1..PieceCount(data[i]["listed_in"]) |->
          Trimmed(Piece(data[i]["listed_in"], k))]

C7_GenresList ==
  Cleaned => \A i \in Rows : df.rows[i]["genres_list"] = ExpectedGenres(i)

C7_Witness ==
  /\ Cleaned
  /\ Len(data) = 1
  /\ "listed_in" \in header
  /\ data[1]["listed_in"] = Dramas
  /\ df.rows[1]["genres_list"] =
       <<(<<"D", "r", "a", "m", "a", "s">>), (<<"I", "n", "t", "l">>)>>

(***************************************************************************)
(* C9: after clean_data no filled or derived text field (director, cast,   *)
(* country, rating, primary_country, the elements of genres_list) is the   *)
(* empty text, and duration_parsed is zero only when zero was parsed.      *)
(***************************************************************************)
C9_NoEmptyText ==
  Cleaned =>
    \A i \in Rows :
      /\ \A c \in (FILLED \cap header) \cup {"primary_country"} : df.rows[i][c] # <<>>
      /\ \A k \in 1..Len(df.rows[i]["genres_list"]) :
           df.rows[i]["genres_list"][k] # <<>>
      /\ df.rows[i]["duration_parsed"] = <<0>> =>
           /\ "duration" \in header
           /\ data[i]["duration"] # NA

(***************************************************************************)
(* C8: the yearly trend maps each year that occurs as a present year_added *)
(* to the number of records of that year, in ascending order of year, the  *)
(* records with no year left out; the summary's earliest_year_added and    *)
(* latest_year_added are the least and the greatest of those years.        *)
(***************************************************************************)
Dated == IF "date_added" \in header
         THEN {i \in Rows : data[i]["date_added"].kind = "date"} ELSE {}
YearsAdded == {data[i]["date_added"].year : i \in Dated}

C8_YearlyTrend ==
  /\ "plot_yearly_trend" \in returned =>
       /\ {series[k][1] : k \in 1..Len(series)} = YearsAdded
       /\ \A k \in 1..Len(series) :
            series[k][2] =
              Cardinality({i \in Dated : data[i]["date_added"].year = series[k][1]})
       /\ \A j, k \in 1..Len(series) : j < k => series[j][1] < series[k][1]
  /\ ("save_summary" \in returned /\ YearsAdded # {}) =>
       /\ summary.earliest_year_added = <<Least(YearsAdded)>>
       /\ summary.latest_year_added = <<Greatest(YearsAdded)>>

C8_Witness ==
  /\ "save_summary" \in returned
  /\ Len(data) = 2
  /\ "date_added" \in header
  /\ data[1]["date_added"] = Date(2021)
  /\ data[2]["date_added"] = Date(2020)
  /\ series = <<(<<2020, 1>>), (<<2021, 1>>)>>
  /\ summary.earliest_year_added = <<2020>>
  /\ summary.latest_year_added = <<2021>>

(***************************************************************************)
(* C4: in the actor tally the count of an actor is the number of pairs     *)
(* (record, position) with the position among the first 5 comma-separated  *)
(* pieces of the record's cast and the trimmed piece equal to the actor;   *)
(* a name at position 6 or later adds to no count.                         *)
(***************************************************************************)
CastOf(i) == df.rows[i]["cast"]
Positions(i) == 1..(IF PieceCount(CastOf(i)) < 5 THEN PieceCount(CastOf(i)) ELSE 5)
Appearances(a) ==
  {<<i, k>> \in Rows \X (1..(MaxCastNames + 2)) :
     k \in Positions(i) /\ Trimmed(Piece(CastOf(i), k)) = a}
AllNames ==
  {Trimmed(Piece(CastOf(i), k)) : <<i, k>> \in
     {<<i, k>> \in Rows \X (1..(MaxCastNames + 2)) : k <= PieceCount(CastOf(i))}}
    \ {<<>>}

C4_ActorCap ==
  ("top_directors_actors" \in returned /\ "cast" \in header) =>
    /\ \A a \in DOMAIN actor_counter : actor_counter[a] = Cardinality(Appearances(a))
    /\ \A a \in AllNames \ DOMAIN actor_counter : Appearances(a) = {}

C4_Witness ==
  /\ "top_directors_actors" \in returned
  /\ Len(data) = 1
  /\ "cast" \in header
  /\ PieceCount(df.rows[1]["cast"]) = 7
  /\ Trimmed(Piece(df.rows[1]["cast"], 6)) = <<"A">>
  /\ <<"A">> \in DOMAIN actor_counter
  /\ actor_counter[<<"A">>] = 1

(***************************************************************************)
(* C3: neither the director tally nor the actor tally of                   *)
(* top_directors_actors has an entry for "Unknown", also for the records   *)
(* whose director or cast was missing and was filled by clean_data.        *)
(***************************************************************************)
C3_NoUnknownInTallies ==
  "top_directors_actors" \in returned =>
    /\ Unknown \notin DOMAIN dir_counts
    /\ Unknown \notin DOMAIN actor_counter

(***************************************************************************)
(* C1: when the CSV path names no existing file, the run ends with a       *)
(* diagnostic and a non-zero status before any output step: no directory   *)
(* was made and no file was written.                                       *)
(***************************************************************************)
C1_NoOutputOnMissingFile ==
  (~csv_exists /\ pc = "exit") =>
    /\ exit_code = <<1>>
    /\ log = <<"ERROR: CSV file not found">>
    /\ dirs = {}
    /\ artifacts = {}

(***************************************************************************)
(* C2: for an existing input file, whatever optional columns are absent    *)
(* and also when a filtered subset is empty, main never raises: the run    *)
(* reaches save_summary and ends with exit code zero.                      *)
(***************************************************************************)
C2_NeverRaises ==
  (csv_exists /\ pc = "exit") =>
    /\ raised = ""
    /\ "save_summary" \in returned
    /\ exit_code = <<0>>

(***************************************************************************)
(* C10: in duration_insights the movie durations come only from the        *)
(* records whose type is "movie" whatever the case, the season counts only *)
(* from those whose type is "tv show", both without the records of missing *)
(* duration_parsed; an empty half writes no file; a record of another type *)
(* or of no type adds to neither half.                                     *)
(***************************************************************************)
TypeIs(i, t) ==
  /\ "type" \in df.columns
  /\ df.rows[i]["type"] # NA
  /\ Len(df.rows[i]["type"]) = Len(t)
  /\ \A k \in 1..Len(t) :
       \/ df.rows[i]["type"][k] = t[k]
       \/ \E u \in 1..26 : LowerCase[u] = t[k] /\ UpperCase[u] = df.rows[i]["type"][k]

RECURSIVE ParsedOf(_, _)
ParsedOf(i, t) ==
  IF i > Len(df.rows) THEN <<>>
  ELSE (IF TypeIs(i, t) /\ df.rows[i]["duration_parsed"] # NaN
        THEN df.rows[i]["duration_parsed"] ELSE <<>>) \o ParsedOf(i + 1, t)

C10_DurationHalves ==
  "duration_insights" \in returned =>
    /\ m = ParsedOf(1, <<"m", "o", "v", "i", "e">>)
    /\ s = ParsedOf(1, <<"t", "v", " ", "s", "h", "o", "w">>)
    /\ "plots/movie_duration_distribution.png" \in artifacts <=> m # <<>>
    /\ "plots/show_seasons_count.png" \in artifacts <=> s # <<>>

====
